---- MODULE Spec2Model ----
(***************************************************************************)
(* Model of framework/src/lib.rs: the identity allocator of Framework, the *)
(* stream bridge (webtransport_futures_bridge, two forwarding tasks around *)
(* a tokio duplex pipe pair) and the typed transport built on top of it    *)
(* (webtransport_protocol: LengthDelimitedCodec framing + bincode).        *)
(*                                                                         *)
(* Sizes are scaled so that "buffer full" and "chunk larger than the free  *)
(* space" happen with a handful of bytes: BUFFER_SIZE and MAX_READ_BYTES   *)
(* are 4096 in the source and 2 here, the length prefix of the codec is 4  *)
(* bytes in the source and 1 here, a byte ranges over Byte instead of      *)
(* 0..255.  The message type carried by the transport is generic in the    *)
(* source; the model instantiates it with Option<u8>.                      *)
(***************************************************************************)
EXTENDS Integers, Sequences, FiniteSets, TLC

\* ------------------------------------------------------------------ bounds
MaxCalls  == 2   \* sink calls (Send, close) made on one adapter
MaxArrive == 4   \* bytes the network delivers on one inbound half
MaxRecv   == 3   \* results recorded from one adapter's Receive sequence
MaxAllocs == 3   \* get_next_id calls
MaxSpin   == 2   \* saturation point of the idle-iteration counters
MaxRawLen == 3   \* longest raw input handed to decode on its own
MaxTraffic == 3  \* sink calls plus arriving bytes when both directions run

\* ------------------------------------------------------- program constants
BUFFER_SIZE      == 2         \* capacity of each direction of the duplex
MAX_READ_BYTES   == 2         \* largest chunk one rx.read returns
length_field_len == 1         \* LengthDelimitedCodec: width of the prefix
max_frame_length == 8388608   \* LengthDelimitedCodec: 8 * 1024 * 1024

Byte == {0, 1, 2}
Side == {"L", "R"}
Peer(s) == IF s = "L" THEN "R" ELSE "L"

Min(a, b) == IF a < b THEN a ELSE b
Take(q, n) == SubSeq(q, 1, n)
Drop(q, n) == SubSeq(q, n + 1, Len(q))
IsPrefix(p, q) == Len(p) <= Len(q) /\ Take(q, Len(p)) = p

\* ------------------------------------------------------------ typed values
\* The message type: Option<u8>, plus one value whose Serialize impl reports
\* an error (bincode::serialize returns Err for it).
None     == [tag |-> "None"]
Some(b)  == [tag |-> "Some", val |-> b]
Unrep    == [tag |-> "Unrep"]
Repr     == {None} \cup {Some(b) : b \in Byte}
Value    == Repr \cup {Unrep}

Ok(x)    == [ok |-> TRUE, val |-> x]
Err(k)   == [ok |-> FALSE, err |-> k]

\* bincode::serialize of an Option<u8>: a tag byte, then the byte if Some.
encode(value) ==
    IF value = Unrep THEN Err("Bincode")
    ELSE IF value = None THEN Ok(<<0>>)
    ELSE Ok(<<1, value.val>>)

\* bincode::deserialize of an Option<u8>: fails on end of input and on a tag
\* other than 0 or 1; bytes after the value are allowed (legacy options).
decode_bad(bytes) ==
    IF Len(bytes) = 0 THEN Err("Bincode")
    ELSE IF bytes[1] = 0 THEN Ok(None)
    ELSE IF bytes[1] = 1 THEN
        IF Len(bytes) < 2 THEN Ok(None) ELSE Ok(Some(bytes[2]))
    ELSE Err("Bincode")

decode(bytes) ==
    IF Len(bytes) = 0 THEN Err("Bincode")
    ELSE IF bytes[1] = 0 THEN Ok(None)
    ELSE IF bytes[1] = 1 THEN
        IF Len(bytes) < 2 THEN Err("Bincode") ELSE Ok(Some(bytes[2]))
    ELSE Err("Bincode")

\* --------------------------------------------------------- length framing
\* LengthDelimitedCodec::default(): big-endian length prefix, then payload.
RECURSIVE BigEndian(_, _)
BigEndian(n, width) ==
    IF width = 0 THEN <<>>
    ELSE BigEndian(n \div 256, width - 1) \o <<n % 256>>

RECURSIVE FromBigEndian(_)
FromBigEndian(bytes) ==
    IF bytes = <<>> THEN 0
    ELSE 256 * FromBigEndian(Take(bytes, Len(bytes) - 1)) + bytes[Len(bytes)]

\* Encoder::encode: Err when the payload is too large, else head \o payload.
FrameOf_bad(payload) ==
    IF Len(payload) > max_frame_length THEN Err("Io")
    ELSE Ok(BigEndian(Len(payload) + 1, length_field_len) \o payload)

FrameOf(payload) ==
    IF Len(payload) > max_frame_length THEN Err("Io")
    ELSE Ok(BigEndian(Len(payload), length_field_len) \o payload)

\* ------------------------------------------------------------------- state
VARIABLES
    next_id,     \* Framework.next_id
    ids,         \* the identities get_next_id has returned, in call order
    probe,       \* a stand-alone run of encode / decode (SpecCodec only)
    calls,       \* per side: the sink calls made on the adapter, with results
    wbuf,        \* per side: write buffer of the Framed codec
    shut,        \* per side: poll_shutdown has run on the adapter's duplex end
    written,     \* per side: every byte `ret` has written into toProxy so far
    retDropped,  \* per side: the adapter (and the duplex end `ret`) is dropped
    toProxy,     \* per side: duplex pipe written by `ret`, read by readhalf
    toRet,       \* per side: duplex pipe written by writehalf, read by `ret`
    taskA,       \* per side: first spawned task: "read", "write" or "failed"
    bufA,        \* per side: `buf` of the first task, after truncate
    spinA,       \* per side: reads of the first task that returned 0 bytes
    txWritten,   \* per side: every byte handed to tx.write so far
    taskB,       \* per side: second spawned task: "read", "write" or "failed"
    bytesB,      \* per side: `bytes` of the second task
    spinB,       \* per side: rx.read calls that returned None
    rxQueue,     \* per side: bytes the network has delivered, not yet read
    rxState,     \* per side: inbound half: "open", "fin" or "reset"
    arrived,     \* per side: every byte the network has delivered so far
    readable,    \* per side: every byte written into toRet so far
    fwdAlone,    \* per side: the tasks that forwarded bytes after the other ended
    rbuf,        \* per side: read buffer of the Framed codec
    dec,         \* per side: DecodeState of the LengthDelimitedCodec
    rEof,        \* per side: FramedRead state.eof
    rReadable,   \* per side: FramedRead state.is_readable
    rErrored,    \* per side: FramedRead state.has_errored
    recvLog      \* per side: the items the adapter's stream has yielded

allocVars == <<next_id, ids>>
sinkVars  == <<calls, wbuf, shut, written>>
loopAVars == <<taskA, bufA, spinA, txWritten>>
loopBVars == <<taskB, bytesB, spinB>>
netInVars == <<rxQueue, rxState, arrived>>
readVars  == <<rbuf, dec, rEof, rReadable, rErrored, recvLog>>
vars == <<next_id, ids, probe, calls, wbuf, shut, written, retDropped, toProxy, toRet,
          taskA, bufA, spinA, txWritten, taskB, bytesB, spinB, rxQueue,
          rxState, arrived, readable, fwdAlone, rbuf, dec, rEof, rReadable, rErrored,
          recvLog>>

AtHead    == [st |-> "Head"]
AtData(n) == [st |-> "Data", n |-> n]

All(x) == [s \in Side |-> x]
Upd(f, s, x) == [f EXCEPT ![s] = x]
Sat(n) == Min(n + 1, MaxSpin)

\* Framework::new, webtransport_futures_bridge and webtransport_protocol on
\* each side: counter at 0, empty pipes, both tasks about to read, codec idle.
Init ==
    /\ next_id = 0
    /\ ids = <<>>
    /\ probe = [pc |-> "idle"]
    /\ calls = All(<<>>)
    /\ wbuf = All(<<>>)
    /\ shut = All(FALSE)
    /\ written = All(<<>>)
    /\ retDropped = All(FALSE)
    /\ toProxy = All(<<>>)
    /\ toRet = All(<<>>)
    /\ taskA = All("read")
    /\ bufA = All(<<>>)
    /\ spinA = All(0)
    /\ txWritten = All(<<>>)
    /\ taskB = All("read")
    /\ bytesB = All(<<>>)
    /\ spinB = All(0)
    /\ rxQueue = All(<<>>)
    /\ rxState = All("open")
    /\ arrived = All(<<>>)
    /\ readable = All(<<>>)
    /\ fwdAlone = All({})
    /\ rbuf = All(<<>>)
    /\ dec = All(AtHead)
    /\ rEof = All(FALSE)
    /\ rReadable = All(FALSE)
    /\ rErrored = All(FALSE)
    /\ recvLog = All(<<>>)

\* -------------------------------------------------------- identity allocator
\* get_next_id: next = next_id + 1; mem::replace(&mut next_id, next) returns
\* the old value.  MaxAllocs is far below usize::MAX, so the addition neither
\* panics (debug build) nor wraps (release build) within the model.
get_next_id_bad(n) == [ret |-> n + 1, next |-> n]

get_next_id(n) == [ret |-> n, next |-> n + 1]

GetNextId_bad ==
    /\ Len(ids) < MaxAllocs
    /\ ids' = Append(ids, get_next_id(next_id).ret)
    /\ next_id' = get_next_id(next_id).next + 1
    /\ UNCHANGED <<fwdAlone, probe, sinkVars, retDropped, toProxy, toRet,
                   loopAVars, loopBVars, netInVars, readable, readVars>>

GetNextId ==
    /\ Len(ids) < MaxAllocs
    /\ ids' = Append(ids, get_next_id(next_id).ret)
    /\ next_id' = get_next_id(next_id).next
    /\ UNCHANGED <<fwdAlone, probe, sinkVars, retDropped, toProxy, toRet, loopAVars,
                   loopBVars, netInVars, readable, readVars>>

\* ------------------------------------------------------------- duplex pipe
\* Both tasks have ended, so both halves of the split `proxy` are dropped and
\* DuplexStream::drop has closed both pipes.
ProxyDropped_bad(s) == taskA[s] = "failed" \/ taskB[s] = "failed"

ProxyDropped(s) == taskA[s] = "failed" /\ taskB[s] = "failed"
\* is_closed of the pipe ret -> proxy, and of the pipe proxy -> ret
ToProxyClosed(s) == shut[s] \/ retDropped[s] \/ ProxyDropped(s)
ToRetClosed(s)   == retDropped[s] \/ ProxyDropped(s)

\* Pipe::poll_write on an open pipe with free space: copies as many bytes as
\* fit and reports how many; the caller keeps the rest.
pipe_write_bad(pipe, data) ==
    [pipe |-> pipe \o data, n |-> Len(data)]

pipe_write(pipe, data) ==
    LET n == Min(Len(data), BUFFER_SIZE - Len(pipe))
    IN  [pipe |-> pipe \o Take(data, n), n |-> n]

\* ------------------------------------------------- adapter, outbound (Sink)
Last(q) == q[Len(q)]
Pending(s) == calls[s] # <<>> /\ Last(calls[s]).res = "pending"
SetRes(log, res) == [log EXCEPT ![Len(log)].res = res]

\* One poll of FramedImpl::poll_flush: write the buffer into the duplex until
\* it is empty ("Ok"), the pipe is closed ("Io": BrokenPipe) or the pipe is
\* full ("pending").  Unwritten bytes stay in the buffer.
poll_flush(w, pipe, closed) ==
    IF w = <<>> THEN [w |-> w, pipe |-> pipe, res |-> "Ok"]
    ELSE IF closed THEN [w |-> w, pipe |-> pipe, res |-> "Io"]
    ELSE IF Len(pipe) >= BUFFER_SIZE THEN [w |-> w, pipe |-> pipe, res |-> "pending"]
    ELSE LET r == pipe_write(pipe, w)
             rest == Drop(w, r.n)
         IN  [w |-> rest, pipe |-> r.pipe,
              res |-> IF rest = <<>> THEN "Ok" ELSE "pending"]

\* SinkExt::send(value), first poll: the `with` closure encodes the value,
\* Framed::start_send appends the frame to the write buffer, poll_flush
\* writes what fits.  An encode error (Bincode) or a frame that is too large
\* (Io) leaves the buffer as it was.
Send(s, v) ==
    /\ ~retDropped[s]
    /\ ~Pending(s)
    /\ Len(calls[s]) < MaxCalls
    /\ LET e == encode(v)
           f == IF e.ok THEN FrameOf(e.val) ELSE e
           r == IF f.ok THEN poll_flush(wbuf[s] \o f.val, toProxy[s], ToProxyClosed(s))
                ELSE [w |-> wbuf[s], pipe |-> toProxy[s], res |-> f.err]
       IN  /\ calls' = Upd(calls, s, Append(calls[s], [op |-> "send", val |-> v, res |-> r.res]))
           /\ wbuf' = Upd(wbuf, s, r.w)
           /\ toProxy' = Upd(toProxy, s, r.pipe)
           /\ written' = Upd(written, s, written[s] \o Drop(r.pipe, Len(toProxy[s])))
    /\ UNCHANGED <<fwdAlone, allocVars, probe, shut, retDropped, toRet, loopAVars,
                   loopBVars, netInVars, readable, readVars>>

\* SinkExt::close(), first poll: poll_flush, then poll_shutdown of the duplex
\* end, which closes the pipe ret -> proxy for writing.
Close(s) ==
    /\ ~retDropped[s]
    /\ ~Pending(s)
    /\ Len(calls[s]) < MaxCalls
    /\ LET r == poll_flush(wbuf[s], toProxy[s], ToProxyClosed(s))
       IN  /\ calls' = Upd(calls, s, Append(calls[s], [op |-> "close", val |-> None, res |-> r.res]))
           /\ wbuf' = Upd(wbuf, s, r.w)
           /\ toProxy' = Upd(toProxy, s, r.pipe)
           /\ written' = Upd(written, s, written[s] \o Drop(r.pipe, Len(toProxy[s])))
           /\ shut' = Upd(shut, s, shut[s] \/ r.res = "Ok")
    /\ UNCHANGED <<fwdAlone, allocVars, probe, retDropped, toRet, loopAVars,
                   loopBVars, netInVars, readable, readVars>>

\* A pending send or close is polled again once the pipe has room or is
\* closed.
SinkResume(s) ==
    /\ ~retDropped[s]
    /\ Pending(s)
    /\ Len(toProxy[s]) < BUFFER_SIZE \/ ToProxyClosed(s)
    /\ LET r == poll_flush(wbuf[s], toProxy[s], ToProxyClosed(s))
       IN  /\ calls' = Upd(calls, s, SetRes(calls[s], r.res))
           /\ wbuf' = Upd(wbuf, s, r.w)
           /\ toProxy' = Upd(toProxy, s, r.pipe)
           /\ written' = Upd(written, s, written[s] \o Drop(r.pipe, Len(toProxy[s])))
           /\ shut' = Upd(shut, s, shut[s] \/ (Last(calls[s]).op = "close" /\ r.res = "Ok"))
    /\ UNCHANGED <<fwdAlone, allocVars, probe, retDropped, toRet, loopAVars,
                   loopBVars, netInVars, readable, readVars>>

\* The adapter is dropped, and with it the duplex end `ret`: DuplexStream's
\* drop closes both pipes.
DropAdapter(s) ==
    /\ ~retDropped[s]
    /\ retDropped' = Upd(retDropped, s, TRUE)
    /\ UNCHANGED <<fwdAlone, allocVars, probe, sinkVars, toProxy, toRet, loopAVars,
                   loopBVars, netInVars, readable, readVars>>

\* ------------------------------------------ first task: duplex -> network
\* readhalf.read(&mut buf): all buffered bytes (buf holds BUFFER_SIZE); 0
\* bytes once the pipe is closed and drained; pending otherwise.  The result
\* is not tested for 0, so an empty buf goes to tx.write like any other.
LoopARead(s) ==
    /\ taskA[s] = "read"
    /\ toProxy[s] # <<>> \/ ToProxyClosed(s)
    /\ LET n == Min(Len(toProxy[s]), BUFFER_SIZE)
       IN  /\ bufA' = Upd(bufA, s, Take(toProxy[s], n))
           /\ toProxy' = Upd(toProxy, s, Drop(toProxy[s], n))
           /\ spinA' = Upd(spinA, s, IF n = 0 THEN Sat(spinA[s]) ELSE spinA[s])
    /\ taskA' = Upd(taskA, s, "write")
    /\ UNCHANGED <<fwdAlone, allocVars, probe, sinkVars, retDropped, toRet, txWritten,
                   loopBVars, netInVars, readable, readVars>>

\* tx.write(&buf) returns Ok: the whole of buf is on the outbound half.
TxWrite_bad(s) ==
    /\ taskA[s] = "write"
    /\ txWritten' = Upd(txWritten, s, txWritten[s] \o Drop(bufA[s], 1))
    /\ bufA' = Upd(bufA, s, <<>>)
    /\ taskA' = Upd(taskA, s, "read")
    /\ fwdAlone' = Upd(fwdAlone, s,
           IF taskB[s] = "failed" /\ bufA[s] # <<>>
               THEN fwdAlone[s] \cup {"A"} ELSE fwdAlone[s])

TxWrite(s) ==
    /\ taskA[s] = "write"
    /\ txWritten' = Upd(txWritten, s, txWritten[s] \o bufA[s])
    /\ bufA' = Upd(bufA, s, <<>>)
    /\ taskA' = Upd(taskA, s, "read")
    /\ fwdAlone' = Upd(fwdAlone, s,
           IF taskB[s] = "failed" /\ bufA[s] # <<>>
               THEN fwdAlone[s] \cup {"A"} ELSE fwdAlone[s])

LoopAWrite_bad(s) ==
    /\ TxWrite(s)
    /\ toRet' = Upd(toRet, s, <<>>)
    /\ UNCHANGED <<allocVars, probe, sinkVars, retDropped, toProxy,
                   spinA, loopBVars, netInVars, readable, readVars>>

LoopAWrite(s) ==
    /\ TxWrite(s)
    /\ UNCHANGED <<allocVars, probe, sinkVars, retDropped, toProxy, toRet,
                   spinA, loopBVars, netInVars, readable, readVars>>

\* tx.write(&buf) returns Err: `?` ends the task, which drops readhalf and tx.
\* Nothing holds the task's JoinHandle, so the error reaches nobody.
LoopAWriteFail_bad(s) ==
    /\ taskA[s] = "write"
    /\ taskA' = Upd(taskA, s, "failed")
    /\ bufA' = Upd(bufA, s, <<>>)
    /\ taskB' = Upd(taskB, s, "failed")
    /\ UNCHANGED <<fwdAlone, allocVars, probe, sinkVars, retDropped, toProxy,
                   toRet, spinA, txWritten, bytesB, spinB, netInVars, readable,
                   readVars>>

LoopAWriteFail(s) ==
    /\ taskA[s] = "write"
    /\ taskA' = Upd(taskA, s, "failed")
    /\ bufA' = Upd(bufA, s, <<>>)
    /\ UNCHANGED <<fwdAlone, allocVars, probe, sinkVars, retDropped, toProxy, toRet,
                   spinA, txWritten, loopBVars, netInVars, readable, readVars>>

\* tx.write(&buf) returns Ok on a stream whose other end is the peer's
\* RecvStream: the bytes are delivered there, in order.
LoopAWriteLinked(s) ==
    /\ TxWrite(s)
    /\ rxQueue' = Upd(rxQueue, Peer(s), rxQueue[Peer(s)] \o bufA[s])
    /\ arrived' = Upd(arrived, Peer(s), arrived[Peer(s)] \o bufA[s])
    /\ UNCHANGED <<allocVars, probe, sinkVars, retDropped, toProxy, toRet,
                   spinA, loopBVars, rxState, readable, readVars>>

\* ----------------------------------------- second task: network -> duplex
\* rx.read(MAX_READ_BYTES): Err after a reset (the task ends), a chunk of 1 to
\* MAX_READ_BYTES buffered bytes, None at end of stream, pending otherwise.
\* None is not tested for: the loop goes straight to the next rx.read.
LoopBRead(s) ==
    /\ taskB[s] = "read"
    /\ \/ /\ rxState[s] = "reset"
          /\ taskB' = Upd(taskB, s, "failed")
          /\ UNCHANGED <<bytesB, spinB, rxQueue>>
       \/ /\ rxState[s] # "reset"
          /\ rxQueue[s] # <<>>
          /\ \E k \in 1..Min(Len(rxQueue[s]), MAX_READ_BYTES) :
                /\ bytesB' = Upd(bytesB, s, Take(rxQueue[s], k))
                /\ rxQueue' = Upd(rxQueue, s, Drop(rxQueue[s], k))
          /\ taskB' = Upd(taskB, s, "write")
          /\ UNCHANGED spinB
       \/ /\ rxState[s] = "fin"
          /\ rxQueue[s] = <<>>
          /\ spinB' = Upd(spinB, s, Sat(spinB[s]))
          /\ UNCHANGED <<taskB, bytesB, rxQueue>>
    /\ UNCHANGED <<fwdAlone, allocVars, probe, sinkVars, retDropped, toProxy, toRet,
                   loopAVars, rxState, arrived, readable, readVars>>

\* writehalf.write(bytes): Err when the pipe is closed (the task ends),
\* pending while the pipe is full; otherwise one poll_write, whose count the
\* task does not look at: what did not fit is gone with `bytes`.
writehalf_write(pipe, data) ==
    pipe_write(pipe, data).pipe

LoopBWrite(s) ==
    /\ taskB[s] = "write"
    /\ \/ /\ ToRetClosed(s)
          /\ taskB' = Upd(taskB, s, "failed")
          /\ UNCHANGED <<toRet, readable, fwdAlone>>
       \/ /\ ~ToRetClosed(s)
          /\ Len(toRet[s]) < BUFFER_SIZE
          /\ LET pipe == writehalf_write(toRet[s], bytesB[s])
             IN  /\ toRet' = Upd(toRet, s, pipe)
                 /\ readable' = Upd(readable, s,
                        readable[s] \o Drop(pipe, Len(toRet[s])))
                 /\ fwdAlone' = Upd(fwdAlone, s,
                        IF taskA[s] = "failed" /\ Len(pipe) > Len(toRet[s])
                            THEN fwdAlone[s] \cup {"B"} ELSE fwdAlone[s])
          /\ taskB' = Upd(taskB, s, "read")
    /\ bytesB' = Upd(bytesB, s, <<>>)
    /\ UNCHANGED <<allocVars, probe, sinkVars, retDropped, toProxy,
                   loopAVars, spinB, netInVars, readVars>>

\* ------------------------------------------------- network, inbound half
\* The peer's bytes reach the RecvStream one at a time, then possibly the end
\* of the stream or a reset.  Nothing arrives for a dropped RecvStream.
NetArrive(s, b) ==
    /\ rxState[s] = "open"
    /\ taskB[s] # "failed"
    /\ Len(arrived[s]) < MaxArrive
    /\ rxQueue' = Upd(rxQueue, s, Append(rxQueue[s], b))
    /\ arrived' = Upd(arrived, s, Append(arrived[s], b))
    /\ UNCHANGED <<fwdAlone, allocVars, probe, sinkVars, retDropped, toProxy, toRet,
                   loopAVars, loopBVars, rxState, readable, readVars>>

NetFin(s) ==
    /\ rxState[s] = "open"
    /\ taskB[s] # "failed"
    /\ rxState' = Upd(rxState, s, "fin")
    /\ UNCHANGED <<fwdAlone, allocVars, probe, sinkVars, retDropped, toProxy, toRet,
                   loopAVars, loopBVars, rxQueue, arrived, readable, readVars>>

NetReset(s) ==
    /\ rxState[s] = "open"
    /\ taskB[s] # "failed"
    /\ rxState' = Upd(rxState, s, "reset")
    /\ UNCHANGED <<fwdAlone, allocVars, probe, sinkVars, retDropped, toProxy, toRet,
                   loopAVars, loopBVars, rxQueue, arrived, readable, readVars>>

\* ------------------------------------------------ adapter, inbound (Stream)
\* LengthDelimitedCodec::decode: decode_head consumes the prefix once it is
\* complete (Err if it announces more than max_frame_length), decode_data
\* splits the payload off once all of it is buffered.
codec_decode(buf, d) ==
    LET headOk == d.st = "Data" \/ Len(buf) >= length_field_len
        n      == IF d.st = "Data" THEN d.n
                  ELSE FromBigEndian(Take(buf, Min(Len(buf), length_field_len)))
        body   == IF d.st = "Data" THEN buf ELSE Drop(buf, length_field_len)
    IN  IF ~headOk THEN [res |-> "none", buf |-> buf, dec |-> d, frame |-> <<>>]
        ELSE IF d.st = "Head" /\ n > max_frame_length
            THEN [res |-> "err", buf |-> buf, dec |-> d, frame |-> <<>>]
        ELSE IF Len(body) < n
            THEN [res |-> "none", buf |-> body, dec |-> AtData(n), frame |-> <<>>]
        ELSE [res |-> "frame", buf |-> Drop(body, n), dec |-> AtHead,
              frame |-> Take(body, n)]

Out(kind, frame) == [kind |-> kind, frame |-> frame]

\* One poll of FramedImpl::poll_next on the state st = (buf, dec, eof,
\* readable, errored) and the pipe it reads; st.out is what the poll returns.
RECURSIVE poll_next(_, _)
poll_next(st, closed) ==
    IF st.errored THEN
        [st EXCEPT !.readable = FALSE, !.errored = FALSE, !.out = Out("end", <<>>)]
    ELSE IF st.readable THEN
        LET d  == codec_decode(st.buf, st.dec)
            st2 == [st EXCEPT !.buf = d.buf, !.dec = d.dec]
        IN  IF d.res = "err" THEN
                [st EXCEPT !.errored = TRUE, !.out = Out("err", <<>>)]
            ELSE IF d.res = "frame" THEN
                [st2 EXCEPT !.out = Out("frame", d.frame)]
            ELSE IF st.eof THEN
                \* decode_eof: nothing left is a clean end, anything left is
                \* "bytes remaining on stream"
                IF d.buf = <<>>
                    THEN [st2 EXCEPT !.readable = FALSE, !.out = Out("end", <<>>)]
                    ELSE [st2 EXCEPT !.errored = TRUE, !.out = Out("err", <<>>)]
            ELSE poll_next([st2 EXCEPT !.readable = FALSE], closed)
    ELSE IF st.pipe # <<>> THEN
        poll_next([st EXCEPT !.buf = st.buf \o st.pipe, !.pipe = <<>>,
                             !.eof = FALSE, !.readable = TRUE], closed)
    ELSE IF closed THEN
        IF st.eof THEN [st EXCEPT !.out = Out("end", <<>>)]
        ELSE poll_next([st EXCEPT !.eof = TRUE, !.readable = TRUE], closed)
    ELSE [st EXCEPT !.out = Out("pending", <<>>)]

End      == [kind |-> "end"]
Failed(k) == [kind |-> "err", err |-> k]
Got(v)   == [kind |-> "val", val |-> v]

\* The `map` closure of webtransport_protocol: a frame error becomes an Io
\* error, a frame goes through decode.
map_frame(out) ==
    IF out.kind = "end" THEN End
    ELSE IF out.kind = "err" THEN Failed("Io")
    ELSE LET v == decode(out.frame)
         IN  IF v.ok THEN Got(v.val) ELSE Failed(v.err)

\* What a poll of the adapter's stream does in the current state.
PollNow(s) ==
    poll_next([buf |-> rbuf[s], dec |-> dec[s], eof |-> rEof[s],
               readable |-> rReadable[s], errored |-> rErrored[s],
               pipe |-> toRet[s], out |-> Out("pending", <<>>)],
              ToRetClosed(s))

\* StreamExt::next() on the adapter, one poll.  A pending poll yields nothing
\* but keeps what it has read.
RecvPoll(s) ==
    /\ ~retDropped[s]
    /\ Len(recvLog[s]) < MaxRecv
    /\ LET r == PollNow(s)
       IN  /\ rbuf' = Upd(rbuf, s, r.buf)
           /\ dec' = Upd(dec, s, r.dec)
           /\ rEof' = Upd(rEof, s, r.eof)
           /\ rReadable' = Upd(rReadable, s, r.readable)
           /\ rErrored' = Upd(rErrored, s, r.errored)
           /\ toRet' = Upd(toRet, s, r.pipe)
           /\ recvLog' = Upd(recvLog, s,
                  IF r.out.kind = "pending" THEN recvLog[s]
                  ELSE Append(recvLog[s], map_frame(r.out)))
    /\ UNCHANGED <<fwdAlone, allocVars, probe, sinkVars, retDropped, toProxy,
                   loopAVars, loopBVars, netInVars, readable>>

\* ----------------------------------------------------------- specifications
\* One adapter ("L") over a network that delivers any bytes, ends or resets
\* the inbound half and accepts or refuses outbound writes.

\* The outbound direction: sink calls, the first task, the allocator.
NextSend ==
    \/ GetNextId
    \/ \E v \in Value : Send("L", v)
    \/ Close("L")
    \/ SinkResume("L")
    \/ DropAdapter("L")
    \/ LoopARead("L")
    \/ LoopAWrite("L")
    \/ LoopAWriteFail("L")

SpecSend == Init /\ [][NextSend]_vars

\* The inbound direction: the network, the second task, the stream; the
\* outbound side only closes, so that the first task can run and fail.
NextRecv ==
    \/ \E b \in Byte : NetArrive("L", b)
    \/ NetFin("L")
    \/ NetReset("L")
    \/ LoopBRead("L")
    \/ LoopBWrite("L")
    \/ RecvPoll("L")
    \/ DropAdapter("L")
    \/ Close("L")
    \/ LoopARead("L")
    \/ LoopAWrite("L")
    \/ LoopAWriteFail("L")

SpecRecv == Init /\ [][NextRecv]_vars

\* Both directions at once, with the sink calls and the arriving bytes
\* bounded together.
Budget == Len(calls["L"]) + Len(arrived["L"]) < MaxTraffic

Next ==
    \/ Budget /\ \E v \in Value : Send("L", v)
    \/ Budget /\ Close("L")
    \/ SinkResume("L")
    \/ DropAdapter("L")
    \/ LoopARead("L")
    \/ LoopAWrite("L")
    \/ LoopAWriteFail("L")
    \/ LoopBRead("L")
    \/ LoopBWrite("L")
    \/ Budget /\ \E b \in Byte : NetArrive("L", b)
    \/ NetFin("L")
    \/ NetReset("L")
    \/ RecvPoll("L")

Spec == Init /\ [][Next]_vars

\* The same system under the scheduling of the tokio runtime: a spawned task
\* whose await can complete is eventually polled, and a tx.write that can
\* complete eventually does.  The network owes nothing: it may stay silent.
SpecFair ==
    /\ Spec
    /\ WF_vars(LoopARead("L"))
    /\ WF_vars(LoopAWrite("L"))
    /\ WF_vars(LoopBRead("L"))
    /\ WF_vars(LoopBWrite("L"))

\* The outbound direction over a network that accepts every write, under the
\* same scheduling.
NextWork ==
    \/ \E v \in Value : Send("L", v)
    \/ Close("L")
    \/ SinkResume("L")
    \/ DropAdapter("L")
    \/ LoopARead("L")
    \/ LoopAWrite("L")

SpecWork ==
    /\ Init
    /\ [][NextWork]_vars
    /\ WF_vars(LoopARead("L"))
    /\ WF_vars(LoopAWrite("L"))

\* Two adapters, one at each end of a reliable, ordered bidirectional stream:
\* what one side's first task writes is what the other side's rx.read gets.
PairBudget == Len(calls["L"]) + Len(calls["R"]) < MaxCalls

NextPair ==
    \E s \in Side :
        \/ PairBudget /\ \E v \in Value : Send(s, v)
        \/ SinkResume(s)
        \/ LoopARead(s)
        \/ LoopAWriteLinked(s)
        \/ LoopBRead(s)
        \/ LoopBWrite(s)
        \/ RecvPoll(s)

SpecPair == Init /\ [][NextPair]_vars

\* encode and decode on their own: a value is encoded, the encoding is
\* possibly cut short, and the bytes (or any raw bytes) are decoded.
RECURSIVE SeqsUpTo(_)
SeqsUpTo(n) ==
    IF n = 0 THEN {<<>>}
    ELSE LET shorter == SeqsUpTo(n - 1)
         IN  shorter \cup {Append(q, b) : q \in {x \in shorter : Len(x) = n - 1}, b \in Byte}

Probe(pc, src, v, bytes, out) ==
    [pc |-> pc, src |-> src, v |-> v, bytes |-> bytes, out |-> out]

ProbeEncode(v) ==
    /\ probe = [pc |-> "idle"]
    /\ probe' = Probe("input", IF encode(v).ok THEN "encoded" ELSE "unencodable", v,
                      IF encode(v).ok THEN encode(v).val ELSE <<>>, encode(v))
    /\ UNCHANGED <<fwdAlone, allocVars, sinkVars, retDropped, toProxy, toRet, loopAVars,
                   loopBVars, netInVars, readable, readVars>>

ProbeTruncate(k) ==
    /\ probe.pc = "input"
    /\ probe.src = "encoded"
    /\ k < Len(probe.bytes)
    /\ probe' = [probe EXCEPT !.src = "truncated", !.bytes = Take(probe.bytes, k)]
    /\ UNCHANGED <<fwdAlone, allocVars, sinkVars, retDropped, toProxy, toRet, loopAVars,
                   loopBVars, netInVars, readable, readVars>>

ProbeRaw(bytes) ==
    /\ probe = [pc |-> "idle"]
    /\ probe' = Probe("input", "raw", None, bytes, Err("none"))
    /\ UNCHANGED <<fwdAlone, allocVars, sinkVars, retDropped, toProxy, toRet, loopAVars,
                   loopBVars, netInVars, readable, readVars>>

ProbeDecode ==
    /\ probe.pc = "input"
    /\ probe.src # "unencodable"
    /\ probe' = [probe EXCEPT !.pc = "decoded", !.out = decode(probe.bytes)]
    /\ UNCHANGED <<fwdAlone, allocVars, sinkVars, retDropped, toProxy, toRet, loopAVars,
                   loopBVars, netInVars, readable, readVars>>

NextCodec ==
    \/ \E v \in Value : ProbeEncode(v)
    \/ \E k \in 0..MaxRawLen : ProbeTruncate(k)
    \/ \E bytes \in SeqsUpTo(MaxRawLen) : ProbeRaw(bytes)
    \/ ProbeDecode

SpecCodec == Init /\ [][NextCodec]_vars

\* ------------------------------------------------------------------ claims
Errors == {"Bincode", "Io"}
SendStep(s) == Len(calls'[s]) = Len(calls[s]) + 1 /\ Last(calls'[s]).op = "send"
RecvStep(s) == Len(recvLog'[s]) = Len(recvLog[s]) + 1
\* the values whose frames the sending side has produced
Framed(s) == SelectSeq(calls[s], LAMBDA c : c.op = "send" /\ encode(c.val).ok)
\* The inbound direction has come to rest at the end of the stream: the
\* network has ended the stream, the second task has been told so and holds
\* no bytes, and the adapter is alive.  From here on the second task only
\* repeats rx.read, so what a Receive polled now returns is what it returns
\* for as long as the adapter lives.
InboundSettled(s) ==
    /\ rxState[s] = "fin" /\ rxQueue[s] = <<>>
    /\ taskB[s] = "read" /\ spinB[s] >= 1
    /\ ~retDropped[s]
\* what Receive, polled now, yields ("pending": nothing)
RecvNow(s) == PollNow(s).out.kind

\* C1: the bytes that have become readable on the local duplex end are at
\* every moment a prefix of the bytes the network has delivered on the
\* inbound half (nothing dropped, duplicated or reordered).
C1_BridgeFidelity == IsPrefix(readable["L"], arrived["L"])

\* C2: over a reliable stream between two adapters, what one side's Receive
\* has yielded is at every moment a prefix of the values the other side's Send
\* has framed: same values, same order, no error and no end in between.
C2_EndToEnd ==
    \A s \in Side :
        IsPrefix(recvLog[Peer(s)],
                 [i \in 1..Len(Framed(s)) |-> Got(Framed(s)[i].val)])

\* C3: a Send step either adds exactly one whole frame (a length prefix whose
\* value is the length of the encoded value, then exactly the encoded bytes)
\* to the adapter's outbound byte flow, or it fails and adds nothing; a value
\* whose encoding fails adds nothing; flushing moves bytes from the write
\* buffer into the duplex without changing the flow.
C3_SendOneFrame ==
    [][ LET old == toProxy["L"] \o wbuf["L"]
            new == toProxy'["L"] \o wbuf'["L"]
            added == Drop(new, Len(old))
        IN  /\ SendStep("L") =>
                LET c == Last(calls'["L"])
                    e == encode(c.val)
                IN  /\ IsPrefix(old, new)
                    /\ \/ added = <<>> /\ c.res \in Errors
                       \/ /\ e.ok
                          /\ Len(added) = length_field_len + Len(e.val)
                          /\ FromBigEndian(Take(added, length_field_len)) = Len(e.val)
                          /\ Drop(added, length_field_len) = e.val
                    /\ ~e.ok => added = <<>> /\ c.res = "Bincode"
            /\ (calls'["L"] # calls["L"] /\ ~SendStep("L")) => new = old
      ]_vars

C3_Witness ==
    /\ Len(calls["L"]) = 2
    /\ calls["L"][1] = [op |-> "send", val |-> Some(1), res |-> "Ok"]
    /\ calls["L"][2] = [op |-> "send", val |-> Unrep, res |-> "Bincode"]

\* C4: the identities get_next_id has returned are strictly increasing in
\* call order, hence pairwise distinct, and every one of them is below the
\* counter, so none is returned again; closing the stream changes nothing.
C4_IdentityUnique ==
    /\ \A i, j \in 1..Len(ids) : i < j => ids[i] < ids[j]
    /\ \A i \in 1..Len(ids) : ids[i] < next_id

C4_Witness ==
    /\ Len(ids) = MaxAllocs
    /\ retDropped["L"]
    /\ taskA["L"] = "failed"

\* C5: when the inbound flow has ended after a length prefix announcing more
\* payload bytes than have arrived, Receive yields an error for that frame
\* (it does not stay pending, end quietly or yield a value).
C5_TruncationError ==
    ( /\ InboundSettled("L")
      /\ dec["L"].st = "Data"
      /\ Len(rbuf["L"]) + Len(toRet["L"]) < dec["L"].n )
    => RecvNow("L") = "err"

\* C6: once close has completed on the adapter, every later Send fails with
\* an error and no later Receive succeeds in yielding a value.
C6_ClosedAdapterFails ==
    [][ shut["L"] =>
            /\ SendStep("L") => Last(calls'["L"]).res \in Errors
            /\ RecvStep("L") => Last(recvLog'["L"]).kind # "val"
      ]_vars

\* C7: once a network write has failed (the first task has ended), every
\* Send made afterwards fails with an error: it neither succeeds nor stays
\* pending.
C7_FailFast ==
    [][ (taskA["L"] = "failed" /\ SendStep("L"))
            => Last(calls'["L"]).res \in Errors
      ]_vars

\* C8: when the inbound half has reached the end of the stream and no
\* partial frame is left over, Receive does not stay pending: it yields the
\* frames still buffered and then the end of the sequence.
C8_ReceiveTerminates ==
    ( /\ InboundSettled("L")
      /\ dec["L"] = AtHead
      /\ rbuf["L"] \o toRet["L"] = <<>> )
    => RecvNow("L") = "end"

\* C9: decoding the encoding of a representable value gives the value back,
\* and decoding a proper prefix of an encoding fails.
C9_RoundTrip ==
    probe.pc = "decoded" =>
        /\ probe.src = "encoded" => probe.out = Ok(probe.v)
        /\ probe.src = "truncated" => ~probe.out.ok

C9_Witness ==
    /\ probe.pc = "decoded"
    /\ probe.src = "truncated"
    /\ probe.v = Some(2)
    /\ probe.bytes = <<1>>

\* C10: the second task has ended once rx.read has reported the end of the
\* stream, and it makes no further rx.read after that.
C10_LoopBStopsAtEos ==
    /\ spinB["L"] >= 1 => taskB["L"] = "failed"
    /\ spinB["L"] <= 1

\* C11: the first task has ended once its read from the duplex has returned 0
\* bytes (the local side is closed and drained), so that no tx.write follows
\* the local close; a failed tx.write ends it as well.
C11_LoopAStopsAtClose ==
    spinA["L"] >= 1 => taskA["L"] = "failed"

\* C12: once the adapter (the duplex end returned by the bridge) is dropped,
\* both tasks eventually end, whatever the network does or fails to do.
C12_Teardown ==
    retDropped["L"] ~> (taskA["L"] = "failed" /\ taskB["L"] = "failed")

\* C13: what the first task has written to the outbound half is at every
\* moment a prefix of what the local side has written into the duplex; one
\* tx.write carries at most BUFFER_SIZE bytes; and, the network accepting
\* every write, each byte written into the duplex is eventually written to
\* the outbound half.
C13_OutboundFidelity ==
    /\ [](IsPrefix(txWritten["L"], written["L"]))
    /\ [][Len(txWritten'["L"]) - Len(txWritten["L"]) <= BUFFER_SIZE]_vars
    /\ \A n \in 1..(MaxCalls * (length_field_len + 2)) :
          (Len(written["L"]) >= n) ~> (Len(txWritten["L"]) >= n)

C13_Witness ==
    /\ txWritten["L"] = written["L"]
    /\ Len(txWritten["L"]) > 2 * BUFFER_SIZE

\* C14: the step in which one task ends on an I/O error leaves the other
\* task where it was, and the other task goes on forwarding: with the first
\* task ended and the adapter alive, a write step of the second task puts
\* bytes into the duplex and returns to reading; with the second task ended,
\* a successful tx.write of the first task carries the whole of its buffer.
C14_FailureIsolation ==
    [][ /\ (taskA["L"] # "failed" /\ taskA'["L"] = "failed")
              => taskB'["L"] = taskB["L"]
        /\ (taskB["L"] # "failed" /\ taskB'["L"] = "failed")
              => taskA'["L"] = taskA["L"]
        /\ (taskA["L"] = "failed" /\ ~retDropped["L"]
                /\ taskB["L"] = "write" /\ taskB'["L"] # "write")
              => /\ taskB'["L"] = "read"
                 /\ Len(readable'["L"]) > Len(readable["L"])
        /\ (taskB["L"] = "failed"
                /\ taskA["L"] = "write" /\ taskA'["L"] = "read")
              => txWritten'["L"] = txWritten["L"] \o bufA["L"]
      ]_vars

C14_Witness ==
    /\ fwdAlone["L"] = {"B"}
    /\ recvLog["L"] # <<>>
    /\ Last(recvLog["L"]).kind = "val"

\* C15: neither direction of the duplex ever holds more than BUFFER_SIZE
\* bytes.  While a direction is full and open its writer is blocked: the
\* sink's pending call keeps its unwritten bytes in the write buffer and a
\* Send made then only appends its frame there; the second task keeps its
\* chunk and stays in its write; the only change to the full pipe is the
\* reader taking bytes out.  Once the pipe has room the blocked writer can
\* go on.
C15_Backpressure ==
    /\ [](Len(toProxy["L"]) <= BUFFER_SIZE /\ Len(toRet["L"]) <= BUFFER_SIZE)
    /\ [][ /\ (Len(toProxy["L"]) = BUFFER_SIZE /\ ~ToProxyClosed("L"))
                 => /\ written'["L"] = written["L"]
                    /\ IsPrefix(wbuf["L"], wbuf'["L"])
                    /\ Len(toProxy'["L"]) <= Len(toProxy["L"])
                    /\ Pending("L") => calls'["L"] = calls["L"]
                    /\ SendStep("L") =>
                          \/ Last(calls'["L"]).res = "Bincode"
                          \/ /\ Last(calls'["L"]).res = "pending"
                             /\ wbuf'["L"] = wbuf["L"]
                                  \o FrameOf(encode(Last(calls'["L"]).val).val).val
           /\ (Len(toRet["L"]) = BUFFER_SIZE /\ ~ToRetClosed("L")
                   /\ taskB["L"] = "write")
                 => /\ taskB'["L"] = "write"
                    /\ bytesB'["L"] = bytesB["L"]
                    /\ readable'["L"] = readable["L"]
                    /\ Len(toRet'["L"]) <= Len(toRet["L"])
         ]_vars
    /\ []( (taskB["L"] = "write" /\ Len(toRet["L"]) < BUFFER_SIZE)
              => ENABLED LoopBWrite("L") )
    /\ []( (Pending("L") /\ ~retDropped["L"] /\ Len(toProxy["L"]) < BUFFER_SIZE)
              => ENABLED SinkResume("L") )

C15_Witness ==
    /\ Len(calls["L"]) = 1
    /\ calls["L"][1].res = "Ok"
    /\ Len(written["L"]) > BUFFER_SIZE

\* C16: after the adapter's Receive has yielded an error (a framing error or
\* a deserialization error), no later Receive yields a decoded value.
C16_NoPartialSuccess ==
    \A i, j \in 1..Len(recvLog["L"]) :
        (i < j /\ recvLog["L"][i].kind = "err") => recvLog["L"][j].kind # "val"

\* C17: a step of the first task changes, besides its own locals, only the
\* outbound half and the pipe it reads (toProxy): the inbound half, the pipe
\* towards the adapter (toRet) and the second task are left as they were.  A
\* step of the second task changes, besides its own locals, only the inbound
\* half and toRet: the outbound half, toProxy and the first task are left as
\* they were.
C17_OwnershipSplit ==
    [][ /\ taskA'["L"] # taskA["L"]
              => UNCHANGED <<rxQueue, rxState, arrived, toRet, readable,
                             taskB, bytesB, spinB>>
        /\ (taskB'["L"] # taskB["L"] \/ bytesB'["L"] # bytesB["L"]
                \/ spinB'["L"] # spinB["L"])
              => UNCHANGED <<txWritten, toProxy, taskA, bufA, spinA>>
      ]_vars

C17_Witness ==
    /\ txWritten["L"] # <<>>
    /\ readable["L"] # <<>>
    /\ taskA["L"] = "write"
    /\ taskB["L"] = "write"

\* C18: the adapter's read of its duplex end returns end of file, and its
\* Receive sequence ends (other than right after a framing error), only when
\* both tasks have ended; with one task ended and the other alive neither
\* happens.
C18_EofAfterBothLoops ==
    LET bothEnded == taskA["L"] = "failed" /\ taskB["L"] = "failed"
        log == recvLog["L"]
    IN  /\ rEof["L"] => bothEnded
        /\ \A i \in 1..Len(log) :
              (log[i].kind = "end" /\ (i = 1 \/ log[i - 1].kind # "err"))
                  => bothEnded

C18_Witness ==
    /\ rEof["L"]
    /\ recvLog["L"] # <<>>
    /\ Last(recvLog["L"]) = End
    /\ Len(recvLog["L"]) >= 2 => recvLog["L"][Len(recvLog["L"]) - 1].kind = "val"

\* C19: the counter starts at 0; the k-th get_next_id call returns k - 1 and
\* after k calls the counter is k: every call returns the value the counter
\* had and adds exactly 1 to it, leaving no gap.
C19_NextIdCounts ==
    /\ next_id = Len(ids)
    /\ \A k \in 1..Len(ids) : ids[k] = k - 1

C19_Witness ==
    /\ Len(ids) = MaxAllocs
    /\ next_id = MaxAllocs
    /\ ids[MaxAllocs] = MaxAllocs - 1

====
